---- MODULE Spec2Model ----
(***************************************************************************)
(* A model of the kaplay-native graphics core: the GPU binding-state       *)
(* stacks created by initGfx (src/src/gfx/gfx.ts), the BatchRenderer, the *)
(* Texture and FrameBuffer wrappers (src/src/gfx/FrameBuffer.ts) and the   *)
(* context's teardown list.                                                *)
(*                                                                         *)
(* GPU handles are positive integers handed out by a counter, null is 0.   *)
(* The GL context and the closure state of initGfx are one record, ctx,    *)
(* so that a method that calls other methods is the composition of their   *)
(* operators.                                                              *)
(***************************************************************************)
EXTENDS Integers, Sequences, FiniteSets, TLC

VARIABLES
    ctx,        \* the GfxCtx: binding stacks, GL bindings, teardown list, GL call logs
    br,         \* the BatchRenderer
    textures,   \* the Texture objects, in construction order
    fbs,        \* the FrameBuffer objects, in construction order
    meshes,     \* the Mesh objects, in construction order
    callStack,  \* FrameBuffer.draw() calls in progress, outermost first
    hist        \* history of the calls made, kept to state the properties

vars == <<ctx, br, textures, fbs, meshes, callStack, hist>>

(* ------------------------------ bounds -------------------------------- *)

\* number of raw push/pop calls made directly on the binding stacks
MaxStackOps == 3
\* number of BatchRenderer.push() calls
MaxPushes == 2
\* depth a binding stack may have when an operation that pushes on it starts
MaxDepth == 2
\* number of flushes that skip their draw for want of buffer space
MaxSkips == 3
\* number of calls other than unbind() and flush() in a sequence that mixes
\* the operations of the four wrappers
MaxOps == 3
\* number of Mesh.draw() calls
MaxMeshDraws == 1
\* number of constructor calls in which a handle allocation may fail
MaxCtors == 2
\* number of Texture.update() calls
MaxUpdates == 2
\* number of Texture objects constructed directly
MaxTextures == 1
\* number of FrameBuffer objects constructed
MaxFrameBuffers == 2
\* number of FrameBuffer.bind()/draw() calls
MaxBinds == 3
\* number of release actions registered by callers other than the wrappers
MaxHooks == 1
\* number of explicit free() calls
MaxFrees == 1
\* number of destroy() calls
MaxDestroys == 2
\* vertex format of the renderer: floats per vertex
Stride == 2
\* capacity of the renderer's queues: floats, indices
MaxVertices == 4
MaxIndices == 3

(* ------------------------------ values -------------------------------- *)

null == 0
NullPrimitive == -1
NullViewport == <<>>
NoUniform == [id |-> 0, val |-> 0]
NoRenderer == [constructed |-> FALSE]

Kinds == {"tex", "abuf", "ebuf", "fb", "rb", "vp", "prog"}
HandleKinds == Kinds \ {"vp"}

NullOf(k) == IF k = "vp" THEN NullViewport ELSE null

\* size of the drawing buffer, the viewport initGfx seeds
DrawingBufferWidth == 8
DrawingBufferHeight == 6

DefaultViewport == <<0, 0, DrawingBufferWidth, DrawingBufferHeight>>

(* ------------------------- the binding stacks ------------------------- *)

\* gl.createTexture() and the other create calls: the next unused handle
CreateHandle(c) == c.nextHandle

Allocated(c, n) == [c EXCEPT !.nextHandle = @ + n]

\* the bind callback initGfx gives genStack for each resource kind
SetFunc(c, k, item) ==
    IF k = "tex"
    THEN IF item # null
         THEN [c EXCEPT !.bound[k] = item]
         ELSE [Allocated(c, 1) EXCEPT !.bound[k] = CreateHandle(c)]
    ELSE IF item # NullOf(k)
         THEN [c EXCEPT !.bound[k] = item]
         ELSE c

\* genStack's cur(): the top of the stack, undefined (null here) when empty
Cur(c, k) ==
    IF c.stack[k] = <<>> THEN NullOf(k) ELSE c.stack[k][Len(c.stack[k])]

\* genStack's push
GenPush(c, k, item) ==
    SetFunc([c EXCEPT !.stack[k] = Append(@, item)], k, item)

\* Array.prototype.pop: an empty array stays empty
ArrayPop(s) == IF s = <<>> THEN <<>> ELSE SubSeq(s, 1, Len(s) - 1)

\* a pop that removes the top and leaves the binding as it is
GenPopNoRebind(c, k) == [c EXCEPT !.stack[k] = ArrayPop(@)]

\* genStack's pop
GenPop(c, k) ==
    LET popped == [c EXCEPT !.stack[k] = ArrayPop(@)]
    IN  SetFunc(popped, k, Cur(popped, k))

PushTexture2D(c, t) == GenPush(c, "tex", t)
PopTexture2D(c) == GenPop(c, "tex")
PushArrayBuffer(c, b) == GenPush(c, "abuf", b)
PopArrayBuffer(c) == GenPop(c, "abuf")
PushElementArrayBuffer(c, b) == GenPush(c, "ebuf", b)
PopElementArrayBuffer(c) == GenPop(c, "ebuf")
PushFramebuffer(c, b) == GenPush(c, "fb", b)
PopFramebuffer(c) == GenPop(c, "fb")
PushRenderbuffer(c, b) == GenPush(c, "rb", b)
PopRenderbuffer(c) == GenPop(c, "rb")
PushViewport(c, v) == GenPush(c, "vp", v)
PopViewport(c) == GenPop(c, "vp")
PushProgram(c, p) == GenPush(c, "prog", p)
PopProgram(c) == GenPop(c, "prog")

\* the context initGfx returns: empty stacks, nothing bound, then the seeded viewport
InitGfx ==
    PushViewport(
        [ stack |-> [k \in Kinds |-> <<>>],
          bound |-> [k \in Kinds |-> IF k = "vp" THEN DefaultViewport ELSE null],
          nextHandle |-> 1,
          gc |-> <<>>,
          curVertexFormat |-> "none",
          bufSize |-> <<>>,
          drawCalls |-> <<>>,
          bufData |-> <<>>,
          texStorage |-> <<>>,
          blendFunc |-> <<"ONE", "ZERO", "ONE", "ZERO">>,
          rbStorage |-> <<>>,
          attachments |-> <<>>,
          deleteCalls |-> <<>>,
          reported |-> 0,
          texCalls |-> <<>>,
          ran |-> <<>> ],
        DefaultViewport)

\* the context's onDestroy(action)
OnDestroy(c, action) == [c EXCEPT !.gc = Append(@, action)]

(* ------------------------------ GL calls ------------------------------ *)

BytesPerFloat == 4
BytesPerIndex == 2

\* new Uint16Array(indices): each value is stored modulo 2^16
ToUint16(n) == n % 65536

Zeros(n) == [i \in 1..n |-> 0]

\* gl.bufferData(target, new ArrayBuffer(bytes), usage) on the buffer bound to target
BufferData(c, k, bytes, elemBytes) ==
    LET h == c.bound[k]
    IN  IF h = null
        THEN c
        ELSE [c EXCEPT !.bufSize = (h :> bytes) @@ @,
                       !.bufData = (h :> Zeros(bytes \div elemBytes)) @@ @]

\* gl.bufferData(target, data, usage) on the buffer bound to target
BufferDataFrom(c, k, data, elemBytes) ==
    LET h == c.bound[k]
    IN  IF h = null
        THEN c
        ELSE [c EXCEPT !.bufSize = (h :> Len(data) * elemBytes) @@ @,
                       !.bufData = (h :> data) @@ @]

\* gl.bufferSubData(target, 0, data): rejected (INVALID_VALUE) when data does not fit
BufferSubData(c, k, data, elemBytes) ==
    LET h == c.bound[k]
    IN  IF h = null \/ h \notin DOMAIN c.bufSize
        THEN c
        ELSE IF Len(data) * elemBytes > c.bufSize[h]
        THEN c
        ELSE [c EXCEPT !.bufData[h] = data \o SubSeq(@, Len(data) + 1, Len(@))]

\* gl.getBufferParameter(target, gl.BUFFER_SIZE)
BufferSize(c, k) ==
    IF c.bound[k] \in DOMAIN c.bufSize THEN c.bufSize[c.bound[k]] ELSE 0

\* the first float of vertex i of a vertex buffer; 0 when i lies outside it
FetchVertex(vdata, i) ==
    IF i >= 0 /\ i * Stride + 1 <= Len(vdata) THEN vdata[i * Stride + 1] ELSE 0

\* gl.drawElements(mode, count, UNSIGNED_SHORT, 0): logs the call with the
\* vertices its indices select from the bound buffers
DrawElements(c, mode, count) ==
    LET idata == IF c.bound["ebuf"] \in DOMAIN c.bufData
                 THEN c.bufData[c.bound["ebuf"]] ELSE <<>>
        vdata == IF c.bound["abuf"] \in DOMAIN c.bufData
                 THEN c.bufData[c.bound["abuf"]] ELSE <<>>
    IN  IF count > Len(idata)
        THEN c
        ELSE [c EXCEPT !.drawCalls = Append(@,
                 [ mode |-> mode,
                   count |-> count,
                   program |-> c.bound["prog"],
                   geometry |-> [i \in 1..count |-> FetchVertex(vdata, idata[i])] ])]

\* the context's setVertexFormat
SetVertexFormat(c, fmt) == [c EXCEPT !.curVertexFormat = fmt]

\* the row gl.blendFuncSeparate is called with for each blend mode
BlendFactors(blend) ==
    CASE blend = "Normal" -> <<"ONE", "ONE_MINUS_SRC_ALPHA", "ONE", "ONE_MINUS_SRC_ALPHA">>
      [] blend = "Add" -> <<"ONE", "ONE", "ONE", "ONE_MINUS_SRC_ALPHA">>
      [] blend = "Multiply" -> <<"DST_COLOR", "ZERO", "ONE", "ONE_MINUS_SRC_ALPHA">>
      [] blend = "Screen" -> <<"ONE_MINUS_DST_COLOR", "ONE", "ONE", "ONE_MINUS_SRC_ALPHA">>
      [] blend = "Overlay" -> <<"DST_COLOR", "ONE_MINUS_SRC_ALPHA", "ONE", "ONE_MINUS_SRC_ALPHA">>

(* ------------------------------ Texture ------------------------------- *)

TextureBind(c, t) == PushTexture2D(c, t.glTex)
TextureUnbind(c) == PopTexture2D(c)

\* gl.texImage2D(TEXTURE_2D, 0, RGBA, w, h, 0, RGBA, UNSIGNED_BYTE, null):
\* storage of w x h for the bound texture
TexImage2D(c, w, h) ==
    [c EXCEPT !.texStorage = (c.bound["tex"] :> <<w, h>>) @@ @,
              !.texCalls = Append(@, [call |-> "texImage2D", tex |-> c.bound["tex"],
                                      w |-> w, h |-> h])]

\* gl.texSubImage2D(TEXTURE_2D, 0, x, y, w, h, RGBA, UNSIGNED_BYTE, data):
\* an upload into the bound texture
TexSubImage2D(c, w, h) ==
    [c EXCEPT !.texCalls = Append(@, [call |-> "texSubImage2D", tex |-> c.bound["tex"],
                                      w |-> w, h |-> h])]

\* new Texture(ctx, w, h): the object and the context after the constructor
NewTextureObj(c, id, w, h) ==
    LET glTex == CreateHandle(c)
        c1 == OnDestroy(Allocated(c, 1), [free |-> "Texture", obj |-> id])
        t == [glTex |-> glTex, width |-> w, height |-> h,
              allocated |-> (w # 0 /\ h # 0)]
        c2 == TextureBind(c1, t)
        c3 == IF w # 0 /\ h # 0 THEN TexImage2D(c2, w, h) ELSE c2
    IN  [tex |-> t, ctx |-> TextureUnbind(c3)]

\* update() that allocates storage whenever it is called
TextureUpdateAllocating(c, t, img) ==
    LET c1 == TextureBind(c, t)
        c2 == TexSubImage2D(TexImage2D(c1, img.width, img.height), img.width, img.height)
    IN  [tex |-> [t EXCEPT !.allocated = TRUE], ctx |-> TextureUnbind(c2)]

\* Texture.update(img): the object and the context after the call
TextureUpdate(c, t, img) ==
    LET c1 == TextureBind(c, t)
        c2 == IF ~t.allocated THEN TexImage2D(c1, img.width, img.height) ELSE c1
        c3 == TexSubImage2D(c2, img.width, img.height)
    IN  [tex |-> [t EXCEPT !.allocated = TRUE], ctx |-> TextureUnbind(c3)]

\* Texture.free
TextureFree(c, t) == [c EXCEPT !.deleteCalls = Append(@, <<"tex", t.glTex>>)]

\* new Texture(ctx, w, h) where gl.createTexture() returns a handle (ok) or null
TextureCtor(c, id, w, h, ok) ==
    IF ~ok
    THEN [thrown |-> TRUE, ctx |-> c]
    ELSE LET r == NewTextureObj(c, id, w, h)
         IN  [thrown |-> FALSE, tex |-> r.tex, ctx |-> r.ctx]

(* ----------------------------- FrameBuffer ---------------------------- *)

\* gl.bindFramebuffer / gl.bindRenderbuffer called directly, not through a stack
BindDirect(c, k, h) == [c EXCEPT !.bound[k] = h]

\* renderbufferStorage, framebufferTexture2D and framebufferRenderbuffer on the
\* bound framebuffer and renderbuffer
Attach(c, f, t, w, h) ==
    [c EXCEPT !.rbStorage = (c.bound["rb"] :> <<w, h>>) @@ @,
              !.attachments = (c.bound["fb"] :> <<t.glTex, f.glRenderbuffer>>) @@ @]

\* FrameBuffer.bind, for the framebuffer f whose texture is t
FrameBufferBind(c, f, t) ==
    LET c1 == IF ~f.attached
              THEN LET d1 == BindDirect(c, "fb", f.glFramebuffer)
                       d2 == BindDirect(d1, "rb", f.glRenderbuffer)
                       d3 == Attach(d2, f, t, t.width, t.height)
                   IN  BindDirect(BindDirect(d3, "fb", null), "rb", null)
              ELSE c
        c2 == PushFramebuffer(c1, f.glFramebuffer)
        c3 == PushRenderbuffer(c2, f.glRenderbuffer)
    IN  [ fb |-> [f EXCEPT !.attached = TRUE],
          ctx |-> PushViewport(c3, <<0, 0, t.width, t.height>>) ]

\* FrameBuffer.unbind
FrameBufferUnbind(c) == PopViewport(PopRenderbuffer(PopFramebuffer(c)))

\* new FrameBuffer(ctx, w, h), the id-th framebuffer, its texture the texId-th texture
NewFrameBufferObj(c, id, texId, w, h) ==
    LET c1 == OnDestroy(c, [free |-> "FrameBuffer", obj |-> id])
        t == NewTextureObj(c1, texId, w, h)
        c2 == Allocated(t.ctx, 2)
        f == [ tex |-> texId,
               glFramebuffer |-> CreateHandle(t.ctx),
               glRenderbuffer |-> CreateHandle(t.ctx) + 1,
               attached |-> FALSE ]
    IN  IF t.tex.allocated
        THEN LET b == FrameBufferBind(c2, f, t.tex)
             IN  [ fb |-> b.fb, tex |-> t.tex,
                   ctx |-> FrameBufferUnbind(Attach(b.ctx, f, t.tex, w, h)) ]
        ELSE [fb |-> f, tex |-> t.tex, ctx |-> c2]

\* data.copyWithin(target, start, end) on a typed array
CopyWithin(data, target, start, end) ==
    [p \in 1..Len(data) |->
        IF p > target /\ p <= target + (end - start) /\ start + (p - target) <= Len(data)
        THEN data[start + (p - target)]
        ELSE data[p]]

\* data.set(source, offset) on a typed array
TypedArraySet(data, source, offset) ==
    [p \in 1..Len(data) |->
        IF p > offset /\ p <= offset + Len(source) THEN source[p - offset] ELSE data[p]]

\* every row taken as a row of the upper half
WholeHeight(height) == height

\* (this.height / 2 | 0): the number of rows the loop swaps with their mirror
HalfHeight(height) == height \div 2

\* the row-swap loop of toImageData(), from row y on
RECURSIVE FlipRows(_, _, _, _)
FlipRows(data, y, width, height) ==
    IF y >= HalfHeight(height)
    THEN data
    ELSE LET bytesPerRow == width * 4
             topOffset == y * bytesPerRow
             bottomOffset == (height - y - 1) * bytesPerRow
             temp == SubSeq(data, topOffset + 1, topOffset + bytesPerRow)
             copied == CopyWithin(data, topOffset, bottomOffset, bottomOffset + bytesPerRow)
         IN  FlipRows(TypedArraySet(copied, temp, bottomOffset), y + 1, width, height)

\* FrameBuffer.toImageData, for the framebuffer f whose texture is t, when
\* gl.readPixels delivers the bytes pixels
FrameBufferToImageData(c, f, t, pixels) ==
    LET b == FrameBufferBind(c, f, t)
    IN  [ fb |-> b.fb,
          ctx |-> FrameBufferUnbind(b.ctx),
          data |-> FlipRows(pixels, 0, t.width, t.height) ]

\* FrameBuffer.free, for the framebuffer f whose texture is t
FrameBufferFree(c, f, t) ==
    TextureFree(
        [c EXCEPT !.deleteCalls = @ \o << <<"fb", f.glFramebuffer>>, <<"rb", f.glRenderbuffer>> >>],
        t)

\* new FrameBuffer(ctx, w, h) where createTexture, createFramebuffer and
\* createRenderbuffer each return a handle (tOk, fOk, rOk) or null
FrameBufferCtor(c, id, texId, w, h, tOk, fOk, rOk) ==
    LET c1 == OnDestroy(c, [free |-> "FrameBuffer", obj |-> id])
        t == TextureCtor(c1, texId, w, h, tOk)
    IN  IF t.thrown
        THEN [thrown |-> TRUE, texCreated |-> FALSE, ctx |-> t.ctx]
        ELSE IF ~fOk \/ ~rOk
        THEN [thrown |-> TRUE, texCreated |-> TRUE, tex |-> t.tex,
              ctx |-> Allocated(t.ctx, (IF fOk THEN 1 ELSE 0) + (IF rOk THEN 1 ELSE 0))]
        ELSE LET r == NewFrameBufferObj(c, id, texId, w, h)
             IN  [thrown |-> FALSE, texCreated |-> TRUE, tex |-> r.tex, fb |-> r.fb,
                  ctx |-> r.ctx]

(* ------------------------------ teardown ------------------------------ *)

\* one registered release action, run
RunAction(c, i) ==
    LET a == c.gc[i]
        ran == [c EXCEPT !.ran = Append(@, i)]
    IN  IF a.free = "Texture" THEN TextureFree(ran, textures[a.obj])
        ELSE IF a.free = "FrameBuffer"
        THEN FrameBufferFree(ran, fbs[a.obj], textures[fbs[a.obj].tex])
        ELSE ran

\* gc.forEach((action) => action()), from the i-th action to the n-th
RECURSIVE ForEach(_, _, _)
ForEach(c, i, n) == IF i > n THEN c ELSE ForEach(RunAction(c, i), i + 1, n)

\* the release actions run newest first
RECURSIVE ForEachReversed(_, _, _)
ForEachReversed(c, i, n) == IF i > n THEN c ELSE ForEachReversed(RunAction(c, n), i, n - 1)

\* the teardown run newest first
DestroyNewestFirst(c) == ForEachReversed(c, 1, Len(c.gc))

\* the context's destroy()
Destroy(c) == ForEach(c, 1, Len(c.gc))

(* ------------------------------- Shader ------------------------------- *)

\* the shader collaborator: bind and unbind go through the program stack
GlProgram(s) == s
ShaderBind(c, s) == PushProgram(c, GlProgram(s))
ShaderUnbind(c) == PopProgram(c)

\* the structural-equality comparator, on uniform snapshots
DeepEq(a, b) == a.val = b.val

(* ---------------------------- BatchRenderer --------------------------- *)

NoPicture == [active |-> FALSE, vertices |-> <<>>, indices |-> <<>>, commands |-> <<>>]

BatchFormat == "batch"

\* new BatchRenderer(ctx, format, maxVertices, maxIndices)
NewBatchRendererObj(c, maxVertices, maxIndices) ==
    LET glVBuf == CreateHandle(c)
        c1 == PushArrayBuffer(Allocated(c, 1), glVBuf)
        c2 == PopArrayBuffer(BufferData(c1, "abuf", maxVertices * BytesPerFloat, BytesPerFloat))
        glIBuf == CreateHandle(c2)
        c3 == PushElementArrayBuffer(Allocated(c2, 1), glIBuf)
        c4 == PopElementArrayBuffer(BufferData(c3, "ebuf", maxIndices * BytesPerIndex, BytesPerIndex))
    IN  [ br |-> [ constructed |-> TRUE,
                   glVBuf |-> glVBuf, glIBuf |-> glIBuf,
                   vqueue |-> <<>>, iqueue |-> <<>>,
                   stride |-> Stride,
                   maxVertices |-> maxVertices, maxIndices |-> maxIndices,
                   numDraws |-> 0,
                   curPrimitive |-> NullPrimitive,
                   curTex |-> null,
                   curShader |-> null,
                   curUniform |-> NoUniform,
                   curBlend |-> "Normal",
                   curFixed |-> "undefined",
                   picture |-> NoPicture ],
          ctx |-> c4 ]

\* new BatchRenderer(...) where the two gl.createBuffer() calls each return a
\* handle (vOk, iOk) or null
BatchRendererCtor(c, maxVertices, maxIndices, vOk, iOk) ==
    IF ~vOk
    THEN [thrown |-> TRUE, ctx |-> c]
    ELSE IF ~iOk
    THEN LET c1 == PushArrayBuffer(Allocated(c, 1), CreateHandle(c))
         IN  [thrown |-> TRUE,
              ctx |-> PopArrayBuffer(BufferData(c1, "abuf", maxVertices * BytesPerFloat,
                                                BytesPerFloat))]
    ELSE LET r == NewBatchRendererObj(c, maxVertices, maxIndices)
         IN  [thrown |-> FALSE, br |-> r.br, ctx |-> r.ctx]

\* !this.curPrimitive: null and the enum value 0 (gl.POINTS) are both falsy
NoPrimitive(b) == b.curPrimitive = NullPrimitive \/ b.curPrimitive = 0

\* the guard that makes flush() return at once
FlushSkips(b) ==
    \/ NoPrimitive(b)
    \/ b.curShader = null
    \/ Len(b.vqueue) = 0
    \/ Len(b.iqueue) = 0

\* the pre-draw check left out: the buffers are taken to be large enough
NeverInsufficient(b, c) == FALSE

\* console.error("Insufficient GL buffer size before drawElements", ...)
ReportInsufficient(c) == [c EXCEPT !.reported = @ + 1]

\* the pre-draw check of the destination buffers
InsufficientBuffers(b, c) ==
    \/ BufferSize(c, "abuf") < Len(b.vqueue) * BytesPerFloat
    \/ BufferSize(c, "ebuf") < Len(b.iqueue) * BytesPerIndex

\* the queues left as they are after the draw
KeepQueues(b) == b

\* this.vqueue.length = 0; this.iqueue.length = 0
ResetQueues(b) == [b EXCEPT !.vqueue = <<>>, !.iqueue = <<>>]

\* BatchRenderer.flush: the renderer and the context after the call
Flush(b, c) ==
    IF FlushSkips(b)
    THEN [br |-> b, ctx |-> c]
    ELSE
      LET c1 == BufferSubData(PushArrayBuffer(c, b.glVBuf), "abuf", b.vqueue, BytesPerFloat)
          c2 == BufferSubData(PushElementArrayBuffer(c1, b.glIBuf), "ebuf",
                              [i \in 1..Len(b.iqueue) |-> ToUint16(b.iqueue[i])], BytesPerIndex)
          c3 == ShaderBind(SetVertexFormat(c2, BatchFormat), b.curShader)
          c4 == IF b.curTex # null THEN TextureBind(c3, textures[b.curTex]) ELSE c3
      IN  IF InsufficientBuffers(b, c4)
          THEN [br |-> b,
                ctx |-> PopElementArrayBuffer(PopArrayBuffer(ReportInsufficient(c4)))]
          ELSE
            LET c5 == DrawElements(c4, b.curPrimitive, Len(b.iqueue))
                c6 == IF b.curTex # null THEN TextureUnbind(c5) ELSE c5
                c7 == PopElementArrayBuffer(PopArrayBuffer(ShaderUnbind(c6)))
            IN  [br |-> [ResetQueues(b) EXCEPT !.numDraws = @ + 1], ctx |-> c7]

\* BatchRenderer.setBlend
SetBlend(b, c, blend) ==
    IF blend # b.curBlend
    THEN [br |-> [b EXCEPT !.curBlend = blend],
          ctx |-> [c EXCEPT !.blendFunc = BlendFactors(blend)]]
    ELSE [br |-> b, ctx |-> c]

\* the material test of push(): any component differs from the current tuple
MaterialDiffers(b, m) ==
    \/ m.primitive # b.curPrimitive
    \/ m.tex # b.curTex
    \/ m.shader # b.curShader
    \/ (b.curUniform.id # m.uniform.id /\ ~DeepEq(b.curUniform, m.uniform))
    \/ m.blend # b.curBlend
    \/ m.fixed # b.curFixed

\* the capacity test of push()
Overflows(b, vertices, indices) ==
    \/ Len(b.vqueue) + Len(vertices) > b.maxVertices
    \/ Len(b.iqueue) + Len(indices) > b.maxIndices

\* the offset taken in floats, the division by the stride forgotten
IndexOffsetInFloats(b) == Len(b.vqueue)

\* const indexOffset = this.vqueue.length / this.stride
IndexOffset(b) == Len(b.vqueue) \div b.stride

Rebased(indices, indexOffset) == [i \in 1..Len(indices) |-> indices[i] + indexOffset]

\* the append loop that stops one element short
AppendAllButLast(queue, items) == queue \o SubSeq(items, 1, Len(items) - 1)

\* for (let i = 0; i < l; i++) this.vqueue.push(vertices[i])
AppendAll(queue, items) == queue \o items

\* push() with no Picture active
PushLive(b, c, m, vertices, indices) ==
    LET f == IF MaterialDiffers(b, m) \/ Overflows(b, vertices, indices)
             THEN LET flushed == Flush(b, c)
                  IN  SetBlend(flushed.br, flushed.ctx, m.blend)
             ELSE [br |-> b, ctx |-> c]
        indexOffset == IndexOffset(f.br)
    IN  [ br |-> [f.br EXCEPT !.vqueue = AppendAll(@, vertices),
                              !.iqueue = @ \o Rebased(indices, indexOffset),
                              !.curPrimitive = m.primitive,
                              !.curShader = m.shader,
                              !.curTex = m.tex,
                              !.curUniform = m.uniform,
                              !.curFixed = m.fixed],
          ctx |-> f.ctx ]

\* the material snapshot a Picture command keeps
PictureMaterial(m) == [tex |-> m.tex, shader |-> m.shader, uniform |-> m.uniform, blend |-> m.blend]

\* the test that lets push() extend the last command of the Picture
SameCommandMaterial(last, material) ==
    /\ last.tex = material.tex
    /\ last.shader = material.shader
    /\ last.uniform.id = material.uniform.id
    /\ last.blend = material.blend

\* the start of a command taken from the vertex array
CommandIndexInVertices(p) == Len(p.vertices)

\* const index = this.picture.indices.length
CommandIndex(p) == Len(p.indices)

\* push() while a Picture is active
PushRecording(b, c, m, vertices, indices) ==
    LET p == b.picture
        index == CommandIndex(p)
        count == Len(indices)
        indexOffset == Len(p.vertices) \div b.stride
        material == PictureMaterial(m)
        n == Len(p.commands)
        commands ==
            IF n > 0 /\ SameCommandMaterial(p.commands[n].material, material)
            THEN [p.commands EXCEPT ![n].count = @ + count]
            ELSE Append(p.commands, [material |-> material, index |-> index, count |-> count])
    IN  [ br |-> [b EXCEPT !.picture = [ active |-> TRUE,
                                         vertices |-> p.vertices \o vertices,
                                         indices |-> p.indices \o Rebased(indices, indexOffset),
                                         commands |-> commands ]],
          ctx |-> c ]

\* push() that goes to the live queues even while a Picture is active
PushAlwaysLive(b, c, m, vertices, indices) == PushLive(b, c, m, vertices, indices)

\* BatchRenderer.push
Push(b, c, m, vertices, indices) ==
    IF b.picture.active
    THEN PushRecording(b, c, m, vertices, indices)
    ELSE PushLive(b, c, m, vertices, indices)

(* -------------------------------- Mesh -------------------------------- *)

MeshFormat == "mesh"

\* new Mesh(ctx, format, vertices, indices) where the two gl.createBuffer()
\* calls each return a handle (vOk, iOk) or null
NewMeshObj(c, vertices, indices, vOk, iOk) ==
    IF ~vOk
    THEN [thrown |-> TRUE, ctx |-> c]
    ELSE
      LET glVBuf == CreateHandle(c)
          c1 == PushArrayBuffer(Allocated(c, 1), glVBuf)
          c2 == PopArrayBuffer(BufferDataFrom(c1, "abuf", vertices, BytesPerFloat))
          glIBuf == IF iOk THEN CreateHandle(c2) ELSE null
          c3 == PushElementArrayBuffer(IF iOk THEN Allocated(c2, 1) ELSE c2, glIBuf)
          c4 == BufferDataFrom(c3, "ebuf",
                               [i \in 1..Len(indices) |-> ToUint16(indices[i])],
                               BytesPerIndex)
      IN  [ thrown |-> FALSE,
            mesh |-> [glVBuf |-> glVBuf, glIBuf |-> glIBuf, count |-> Len(indices)],
            ctx |-> PopElementArrayBuffer(c4) ]

\* Mesh.draw() with its default arguments: gl.TRIANGLES, the whole index buffer
MeshDraw(c, mesh) ==
    LET c1 == PushElementArrayBuffer(PushArrayBuffer(c, mesh.glVBuf), mesh.glIBuf)
        c2 == DrawElements(SetVertexFormat(c1, MeshFormat), 4, mesh.count)
    IN  PopElementArrayBuffer(PopArrayBuffer(c2))

(* --------------------------- inputs of push() ------------------------- *)

\* GLenum values of the primitive types, gl.POINTS (0) to gl.TRIANGLE_FAN (6),
\* and the ones submitted here: POINTS, LINES, TRIANGLES
Primitives == 0..6
PushedPrimitives == {0, 1, 4}
Shaders == {1, 2}
BlendModes == {"Normal", "Add", "Multiply", "Screen", "Overlay"}

\* two uniform objects with equal contents
UniformA == [id |-> 1, val |-> 1]
UniformATwin == [id |-> 2, val |-> 1]

BaseMaterial ==
    [primitive |-> 4, tex |-> null, shader |-> 1, uniform |-> UniformA,
     blend |-> "Normal", fixed |-> "false"]

\* the base material and every material that differs from it in one component
Materials ==
    {[BaseMaterial EXCEPT !.primitive = p] : p \in PushedPrimitives}
    \cup {[BaseMaterial EXCEPT !.tex = t] : t \in 1..Len(textures)}
    \cup {[BaseMaterial EXCEPT !.shader = s] : s \in Shaders}
    \cup {[BaseMaterial EXCEPT !.uniform = u] : u \in {UniformATwin}}
    \cup {[BaseMaterial EXCEPT !.blend = "Add"], [BaseMaterial EXCEPT !.fixed = "true"]}

\* whole vertices with indices into them; the last one exceeds both capacities
Geometries ==
    { [nv |-> 1, indices |-> <<>>],
      [nv |-> 1, indices |-> <<0>>],
      [nv |-> 2, indices |-> <<0, 1, 1>>],
      [nv |-> 3, indices |-> <<0, 1, 2, 0>>] }

\* the floats of a submission: each carries the submission's sequence number
VerticesOf(g, tag) == [i \in 1..(g.nv * Stride) |-> tag]

(* ------------------------------ history ------------------------------- *)

NoRun == [k |-> 0, m |-> BaseMaterial, floats |-> 0, indices |-> 0]

InitHist ==
    [ call |-> [op |-> "init"],
      pushes |-> 0,
      run |-> NoRun,
      queued |-> {},
      submitted |-> <<>>,
      recorded |-> <<>>,
      updates |-> <<>>,
      ctors |-> 0,
      texNest |-> 0,
      meshDraws |-> 0,
      stray |-> FALSE,
      stackOps |-> 0,
      boundBefore |-> [k \in Kinds |-> IF k = "vp" THEN <<DefaultViewport>> ELSE <<>>],
      nest |-> <<>>,
      binds |-> 0,
      hooks |-> 0,
      frees |-> 0,
      destroys |-> 0 ]

\* the material tuples of two submissions compare equal: texture and shader by
\* identity, uniform by value, primitive, blend and fixed by value
SameTuple(m1, m2) ==
    /\ m1.primitive = m2.primitive
    /\ m1.tex = m2.tex
    /\ m1.shader = m2.shader
    /\ m1.uniform.val = m2.uniform.val
    /\ m1.blend = m2.blend
    /\ m1.fixed = m2.fixed

(* ------------------------------- actions ------------------------------ *)

\* the context after initGfx, new BatchRenderer and new Texture(ctx, 1, 1)
Init ==
    LET r == NewBatchRendererObj(InitGfx, MaxVertices, MaxIndices)
        t == NewTextureObj(r.ctx, 1, 1, 1)
    IN  /\ ctx = t.ctx
        /\ br = r.br
        /\ textures = <<t.tex>>
        /\ fbs = <<>>
        /\ meshes = <<>>
        /\ callStack = <<>>
        /\ hist = InitHist

\* a push(): the renderer's push, and the history of the run (live) or of the
\* recording (Picture active) it belongs to
DoPush(m, g) ==
    /\ hist.pushes < MaxPushes
    /\ LET tag == hist.pushes + 1
           vertices == VerticesOf(g, tag)
           r == Push(br, ctx, m, vertices, g.indices)
           continues == hist.run.k > 0 /\ SameTuple(hist.run.m, m)
           drew == r.br.numDraws > br.numDraws
           live == ~br.picture.active
       IN  /\ br' = r.br
           /\ ctx' = r.ctx
           /\ hist' = [hist EXCEPT
                 !.call = [op |-> "push", m |-> m, vertices |-> vertices, indices |-> g.indices,
                           reportedBefore |-> ctx.reported],
                 !.pushes = tag,
                 !.run = IF ~live THEN @
                         ELSE IF continues
                         THEN [@ EXCEPT !.k = @ + 1, !.floats = @ + Len(vertices),
                                        !.indices = @ + Len(g.indices)]
                         ELSE [k |-> 1, m |-> m, floats |-> Len(vertices),
                               indices |-> Len(g.indices)],
                 !.queued = IF ~live THEN @
                            ELSE (IF drew THEN {} ELSE @)
                                 \cup (IF g.nv > 0 \/ g.indices # <<>> THEN {m} ELSE {}),
                 !.submitted = IF ~live THEN @
                               ELSE @ \o [i \in 1..Len(g.indices) |-> tag],
                 !.recorded = IF live THEN @
                              ELSE Append(@, [m |-> m, count |-> Len(g.indices)])]
    /\ UNCHANGED <<textures, fbs, callStack, meshes>>

\* an explicit flush()
DoFlush ==
    /\ ctx.reported < MaxSkips
    /\ LET r == Flush(br, ctx)
           drew == r.br.numDraws > br.numDraws
       IN  /\ br' = r.br
           /\ ctx' = r.ctx
           /\ hist' = [hist EXCEPT
                 !.call = [op |-> "flush"],
                 !.run = NoRun,
                 !.queued = IF drew THEN {} ELSE @]
    /\ UNCHANGED <<textures, fbs, callStack, meshes>>

Next ==
    \/ \E m \in Materials, g \in Geometries : DoPush(m, g)
    \/ DoFlush

\* the BatchRenderer in live mode
Spec == Init /\ [][Next]_vars

(* -------------------------- actions: setBlend ------------------------- *)

\* renderer.setBlend(mode) called by the caller
DoSetBlend(mode) ==
    /\ LET r == SetBlend(br, ctx, mode)
       IN  /\ br' = r.br
           /\ ctx' = r.ctx
    /\ hist' = [hist EXCEPT !.call = [op |-> "setBlend", mode |-> mode]]
    /\ UNCHANGED <<textures, fbs, meshes, callStack>>

NextBlend ==
    \/ \E m \in Materials, g \in Geometries : DoPush(m, g)
    \/ DoFlush
    \/ \E mode \in BlendModes : DoSetBlend(mode)

\* the BatchRenderer with its blend mode set between its calls
SpecBlend == Init /\ [][NextBlend]_vars

(* ---------------------- actions: Picture recording -------------------- *)

\* the Picture a recording starts with: no vertices, no indices, no commands
EmptyPicture == [active |-> TRUE, vertices |-> <<>>, indices |-> <<>>, commands |-> <<>>]

\* the caller makes a Picture the renderer's target: renderer.picture = picture
BeginPicture ==
    /\ ~br.picture.active
    /\ br' = [br EXCEPT !.picture = EmptyPicture]
    /\ hist' = [hist EXCEPT !.call = [op |-> "beginPicture"], !.recorded = <<>>]
    /\ UNCHANGED <<ctx, textures, fbs, callStack, meshes>>

\* the caller ends the recording: renderer.picture = null
EndPicture ==
    /\ br.picture.active
    /\ br' = [br EXCEPT !.picture = NoPicture]
    /\ hist' = [hist EXCEPT !.call = [op |-> "endPicture"], !.recorded = <<>>]
    /\ UNCHANGED <<ctx, textures, fbs, callStack, meshes>>

NextPicture ==
    \/ \E m \in Materials, g \in Geometries : DoPush(m, g)
    \/ DoFlush
    \/ BeginPicture
    \/ EndPicture

\* the BatchRenderer with recordings started and ended between its calls
SpecPicture == Init /\ [][NextPicture]_vars

(* ---------------- actions: the binding stacks, called directly -------- *)

\* the items pushed: null, and two resources of the kind
StackItems(k) ==
    IF k = "vp" THEN {NullViewport, <<0, 0, 2, 2>>, <<0, 0, 4, 4>>} ELSE {null, 1, 2}

\* ctx.pushX(item), with the binding in effect before it remembered
StackPush(k, item) ==
    /\ hist.stackOps < MaxStackOps
    /\ Len(ctx.stack[k]) < MaxDepth
    /\ ctx' = GenPush(ctx, k, item)
    /\ hist' = [hist EXCEPT !.call = [op |-> "stackPush", kind |-> k],
                            !.stackOps = @ + 1,
                            !.boundBefore[k] = Append(@, ctx.bound[k])]
    /\ UNCHANGED <<br, textures, fbs, callStack, meshes>>

\* ctx.popX()
StackPop(k) ==
    /\ hist.stackOps < MaxStackOps
    /\ ctx' = GenPop(ctx, k)
    /\ hist' = [hist EXCEPT !.call = [op |-> "stackPop", kind |-> k],
                            !.stackOps = @ + 1,
                            !.boundBefore[k] = ArrayPop(@)]
    /\ UNCHANGED <<br, textures, fbs, callStack, meshes>>

NextStack ==
    \/ \E k \in Kinds : \E item \in StackItems(k) : StackPush(k, item)
    \/ \E k \in Kinds : StackPop(k)

SpecStack == Init /\ [][NextStack]_vars

(* ------------------------ actions: FrameBuffer ------------------------ *)

\* sizes a framebuffer is constructed with: 0 x 0 defers its attachment
FrameBufferSizes == {0, 2}

TargetKinds == {"fb", "rb", "vp"}

\* the render target in effect: the bound framebuffer, renderbuffer and viewport
Target(c) == [k \in TargetKinds |-> c.bound[k]]

TargetStacks(c) == [k \in TargetKinds |-> c.stack[k]]

\* new FrameBuffer(ctx, w, h), while the context has not been destroyed
NewFrameBufferOfSize(w, h) ==
    /\ Len(fbs) < MaxFrameBuffers
    /\ hist.destroys = 0
    /\ LET r == NewFrameBufferObj(ctx, Len(fbs) + 1, Len(textures) + 1, w, h)
       IN  /\ ctx' = r.ctx
           /\ fbs' = Append(fbs, r.fb)
           /\ textures' = Append(textures, r.tex)
    /\ hist' = [hist EXCEPT !.call = [op |-> "newFrameBuffer"]]
    /\ UNCHANGED <<br, callStack, meshes>>

\* new FrameBuffer(ctx, size, size)
NewFrameBuffer(size) == NewFrameBufferOfSize(size, size)

\* the bind() of framebuffer i and what the history keeps of it
Bound(i, draw) ==
    /\ hist.binds < MaxBinds
    /\ Len(ctx.stack["fb"]) < MaxDepth
    /\ LET r == FrameBufferBind(ctx, fbs[i], textures[fbs[i].tex])
       IN  /\ ctx' = r.ctx
           /\ fbs' = [fbs EXCEPT ![i] = r.fb]
    /\ hist' = [hist EXCEPT
          !.call = [op |-> IF draw THEN "draw" ELSE "bind", fb |-> i],
          !.binds = @ + 1,
          !.nest = Append(@, [fb |-> i, draw |-> draw, before |-> Target(ctx)])]

\* fbs[i].bind()
FbBind(i) ==
    /\ Bound(i, FALSE)
    /\ UNCHANGED <<br, textures, callStack, meshes>>

\* fbs[i].unbind(), matching the innermost bind() still in effect
FbUnbind(i) ==
    /\ hist.nest # <<>>
    /\ hist.nest[Len(hist.nest)].fb = i
    /\ ~hist.nest[Len(hist.nest)].draw
    /\ ctx' = FrameBufferUnbind(ctx)
    /\ hist' = [hist EXCEPT !.call = [op |-> "unbind", fb |-> i], !.nest = ArrayPop(@)]
    /\ UNCHANGED <<br, textures, fbs, callStack, meshes>>

\* fbs[i].draw(action) up to the call of action: bind()
DrawBegin(i) ==
    /\ Bound(i, TRUE)
    /\ callStack' = Append(callStack, [fb |-> i, stacks |-> TargetStacks(ctx)])
    /\ UNCHANGED <<br, textures, meshes>>

\* action returns to the innermost draw(): unbind()
DrawReturn ==
    /\ callStack # <<>>
    /\ hist.nest[Len(hist.nest)].draw
    /\ ctx' = FrameBufferUnbind(ctx)
    /\ callStack' = ArrayPop(callStack)
    /\ hist' = [hist EXCEPT !.call = [op |-> "drawReturn"], !.nest = ArrayPop(@)]
    /\ UNCHANGED <<br, textures, fbs, meshes>>

\* action throws: the exception leaves every draw() in progress, none of
\* which catches it
DrawThrow ==
    /\ callStack # <<>>
    /\ callStack' = <<>>
    /\ hist' = [hist EXCEPT !.call = [op |-> "drawThrow"], !.nest = <<>>]
    /\ UNCHANGED <<ctx, br, textures, fbs, meshes>>

NextFrameBuffer ==
    \/ \E size \in FrameBufferSizes : NewFrameBuffer(size)
    \/ \E i \in 1..Len(fbs) : FbBind(i)
    \/ \E i \in 1..Len(fbs) : FbUnbind(i)
    \/ \E i \in 1..Len(fbs) : DrawBegin(i)
    \/ DrawReturn
    \/ DrawThrow

SpecFrameBuffer == Init /\ [][NextFrameBuffer]_vars

(* ------------------------- actions: teardown -------------------------- *)

TextureSizes == {0, 1}

\* new Texture(ctx, w, h), while the context has not been destroyed
NewTexture(w, h) ==
    /\ Len(textures) - Len(fbs) < MaxTextures + 1
    /\ hist.destroys = 0
    /\ LET r == NewTextureObj(ctx, Len(textures) + 1, w, h)
       IN  /\ ctx' = r.ctx
           /\ textures' = Append(textures, r.tex)
    /\ hist' = [hist EXCEPT !.call = [op |-> "newTexture"]]
    /\ UNCHANGED <<br, fbs, callStack, meshes>>

\* textures[i].free(), called by the owner of the texture before the context
\* is destroyed
FreeTexture(i) ==
    /\ hist.frees < MaxFrees
    /\ hist.destroys = 0
    /\ ctx' = TextureFree(ctx, textures[i])
    /\ hist' = [hist EXCEPT !.call = [op |-> "free", tex |-> i], !.frees = @ + 1]
    /\ UNCHANGED <<br, textures, fbs, callStack, meshes>>

\* fbs[i].free(), before the context is destroyed
FreeFrameBuffer(i) ==
    /\ hist.frees < MaxFrees
    /\ hist.destroys = 0
    /\ ctx' = FrameBufferFree(ctx, fbs[i], textures[fbs[i].tex])
    /\ hist' = [hist EXCEPT !.call = [op |-> "free", fb |-> i], !.frees = @ + 1]
    /\ UNCHANGED <<br, textures, fbs, callStack, meshes>>

\* ctx.onDestroy(action) called with an action of the caller's own
RegisterHook ==
    /\ hist.hooks < MaxHooks
    /\ ctx' = OnDestroy(ctx, [free |-> "hook", obj |-> hist.hooks + 1])
    /\ hist' = [hist EXCEPT !.call = [op |-> "onDestroy"], !.hooks = @ + 1]
    /\ UNCHANGED <<br, textures, fbs, callStack, meshes>>

\* ctx.destroy()
DoDestroy ==
    /\ hist.destroys < MaxDestroys
    /\ ctx' = Destroy(ctx)
    /\ hist' = [hist EXCEPT !.call = [op |-> "destroy"], !.destroys = @ + 1]
    /\ UNCHANGED <<br, textures, fbs, callStack, meshes>>

\* the resources torn down are a 1 x 1 texture and a 2 x 2 framebuffer
NextTeardown ==
    \/ NewTexture(1, 1)
    \/ NewFrameBuffer(2)
    \/ \E i \in 1..Len(textures) : FreeTexture(i)
    \/ \E i \in 1..Len(fbs) : FreeFrameBuffer(i)
    \/ RegisterHook
    \/ DoDestroy

SpecTeardown == Init /\ [][NextTeardown]_vars

(* --------------- actions: Texture and FrameBuffer storage ------------- *)

\* the images passed to update(): square, of side 0, 1 or 2
ImageSizes == {0, 1, 2}

\* textures[i].update(img) with an image of size n x n
UpdateTexture(i, n) ==
    /\ Len(hist.updates) < MaxUpdates
    /\ LET r == TextureUpdate(ctx, textures[i], [width |-> n, height |-> n])
       IN  /\ ctx' = r.ctx
           /\ textures' = [textures EXCEPT ![i] = r.tex]
    /\ hist' = [hist EXCEPT !.call = [op |-> "update", tex |-> i, size |-> n],
                            !.updates = Append(@, [tex |-> i, size |-> n])]
    /\ UNCHANGED <<br, fbs, callStack, meshes>>

NextTexture ==
    \/ \E w, h \in TextureSizes : NewTexture(w, h)
    \/ \E i \in 1..Len(textures) : \E n \in ImageSizes : UpdateTexture(i, n)

\* textures constructed and updated
SpecTexture == Init /\ [][NextTexture]_vars

NextAttach ==
    \/ \E size \in FrameBufferSizes : NewFrameBuffer(size)
    \/ \E i \in 1..Len(fbs) : \E n \in ImageSizes : UpdateTexture(fbs[i].tex, n)
    \/ \E i \in 1..Len(fbs) : FbBind(i)
    \/ \E i \in 1..Len(fbs) : FbUnbind(i)

\* framebuffers constructed and bound, their textures updated
SpecAttach == Init /\ [][NextAttach]_vars

(* ------------------------- actions: readback -------------------------- *)

ReadbackWidths == {1, 2}
ReadbackHeights == {0, 1, 2, 3}

\* first bytes of the contents read back; 250 makes the bytes wrap around 255
PixelSeeds == {0, 100, 250}

\* the bytes gl.readPixels writes for a w x h framebuffer: RGBA8, bottom row
\* first, every byte different from its neighbours
ReadPixels(seed, w, h) == [p \in 1..(w * h * 4) |-> (seed + p - 1) % 256]

\* fbs[i].toImageData()
ToImageData(i, seed) ==
    /\ hist.binds < MaxBinds
    /\ LET t == textures[fbs[i].tex]
           pixels == ReadPixels(seed, t.width, t.height)
           r == FrameBufferToImageData(ctx, fbs[i], t, pixels)
       IN  /\ ctx' = r.ctx
           /\ fbs' = [fbs EXCEPT ![i] = r.fb]
           /\ hist' = [hist EXCEPT
                 !.call = [op |-> "toImageData", fb |-> i, read |-> pixels, data |-> r.data,
                           width |-> t.width, height |-> t.height],
                 !.binds = @ + 1]
    /\ UNCHANGED <<br, textures, meshes, callStack>>

NextReadback ==
    \/ \E w \in ReadbackWidths, h \in ReadbackHeights : NewFrameBufferOfSize(w, h)
    \/ \E i \in 1..Len(fbs), seed \in PixelSeeds : ToImageData(i, seed)

\* framebuffers of several sizes constructed and read back
SpecReadback == Init /\ [][NextReadback]_vars

(* --------- actions: constructors whose handle allocation may fail ----- *)

\* what the history keeps of a constructor call: a create call returned
\* null (failed), the constructor threw (thrown)
Constructed(class, failed, thrown) ==
    [hist EXCEPT !.call = [op |-> "new", class |-> class, failed |-> failed,
                           thrown |-> thrown],
                 !.ctors = @ + 1]

\* new Texture(ctx, w, h)
ConstructTexture(w, h, ok) ==
    /\ hist.ctors < MaxCtors
    /\ LET r == TextureCtor(ctx, Len(textures) + 1, w, h, ok)
       IN  /\ ctx' = r.ctx
           /\ textures' = IF r.thrown THEN textures ELSE Append(textures, r.tex)
           /\ hist' = Constructed("Texture", ~ok, r.thrown)
    /\ UNCHANGED <<br, fbs, meshes, callStack>>

\* new BatchRenderer(ctx, format, MaxVertices, MaxIndices): a renderer that
\* takes the place of the first when the constructor returns
ConstructBatchRenderer(vOk, iOk) ==
    /\ hist.ctors < MaxCtors
    /\ LET r == BatchRendererCtor(ctx, MaxVertices, MaxIndices, vOk, iOk)
       IN  /\ ctx' = r.ctx
           /\ br' = IF r.thrown THEN br ELSE r.br
           /\ hist' = Constructed("BatchRenderer", ~vOk \/ ~iOk, r.thrown)
    /\ UNCHANGED <<textures, fbs, meshes, callStack>>

\* new Mesh(ctx, format, vertices, indices)
ConstructMesh(g, vOk, iOk) ==
    /\ hist.ctors < MaxCtors
    /\ LET r == NewMeshObj(ctx, VerticesOf(g, Len(meshes) + 1), g.indices, vOk, iOk)
       IN  /\ ctx' = r.ctx
           /\ meshes' = IF r.thrown THEN meshes ELSE Append(meshes, r.mesh)
           /\ hist' = Constructed("Mesh", ~vOk \/ ~iOk, r.thrown)
    /\ UNCHANGED <<br, textures, fbs, callStack>>

\* new FrameBuffer(ctx, size, size); the Texture it constructed before it
\* threw stays registered for teardown
ConstructFrameBuffer(size, tOk, fOk, rOk) ==
    /\ hist.ctors < MaxCtors
    /\ LET r == FrameBufferCtor(ctx, Len(fbs) + 1, Len(textures) + 1, size, size,
                                tOk, fOk, rOk)
       IN  /\ ctx' = r.ctx
           /\ textures' = IF r.texCreated THEN Append(textures, r.tex) ELSE textures
           /\ fbs' = IF r.thrown THEN fbs ELSE Append(fbs, r.fb)
           /\ hist' = Constructed("FrameBuffer", ~tOk \/ ~fOk \/ ~rOk, r.thrown)
    /\ UNCHANGED <<br, meshes, callStack>>

NextAlloc ==
    \/ \E w, h \in TextureSizes, ok \in BOOLEAN : ConstructTexture(w, h, ok)
    \/ \E vOk, iOk \in BOOLEAN : ConstructBatchRenderer(vOk, iOk)
    \/ \E g \in Geometries, vOk, iOk \in BOOLEAN : ConstructMesh(g, vOk, iOk)
    \/ \E size \in FrameBufferSizes, tOk, fOk, rOk \in BOOLEAN :
           ConstructFrameBuffer(size, tOk, fOk, rOk)

\* the resource wrappers constructed on a context whose create calls may
\* return null
SpecAlloc == Init /\ [][NextAlloc]_vars

(* ------------- actions: the operations of the four wrappers ----------- *)

\* textures[i].bind()
TexBind(i) ==
    /\ hist.binds < MaxBinds
    /\ Len(ctx.stack["tex"]) < MaxDepth
    /\ ctx' = TextureBind(ctx, textures[i])
    /\ hist' = [hist EXCEPT !.call = [op |-> "texBind", tex |-> i],
                            !.binds = @ + 1,
                            !.texNest = @ + 1]
    /\ UNCHANGED <<br, textures, fbs, meshes, callStack>>

\* textures[i].unbind(), after a bind() still in effect
TexUnbind(i) ==
    /\ hist.texNest > 0
    /\ ctx' = TextureUnbind(ctx)
    /\ hist' = [hist EXCEPT !.call = [op |-> "texUnbind", tex |-> i], !.texNest = @ - 1]
    /\ UNCHANGED <<br, textures, fbs, meshes, callStack>>

\* fbs[i].unbind() with no bind() in effect
StrayUnbind(i) ==
    /\ hist.nest = <<>>
    /\ ctx' = FrameBufferUnbind(ctx)
    /\ hist' = [hist EXCEPT !.call = [op |-> "strayUnbind", fb |-> i], !.stray = TRUE]
    /\ UNCHANGED <<br, textures, fbs, meshes, callStack>>

\* meshes[i].draw()
DrawMesh(i) ==
    /\ hist.meshDraws < MaxMeshDraws
    /\ ctx' = MeshDraw(ctx, meshes[i])
    /\ hist' = [hist EXCEPT !.call = [op |-> "meshDraw", mesh |-> i], !.meshDraws = @ + 1]
    /\ UNCHANGED <<br, textures, fbs, meshes, callStack>>

\* what is submitted and constructed here: geometry that fits the renderer
\* and geometry that exceeds it, without and with a texture
OpsGeometries == {g \in Geometries : g.nv >= 2}
OpsMaterials == {BaseMaterial, [BaseMaterial EXCEPT !.tex = 1]}
OpsMeshGeometry == [nv |-> 2, indices |-> <<0, 1, 1>>]

\* the constructor, bind(), update(), toImageData(), push() and draw() calls
\* made so far
OpsMade ==
    hist.pushes + hist.binds + Len(hist.updates) + Len(fbs) + Len(meshes) + hist.meshDraws

\* one more such call may be made; unbind() and flush() calls follow them
OpsBudget == OpsMade < MaxOps

NextOps ==
    \/ \E size \in FrameBufferSizes : OpsBudget /\ NewFrameBuffer(size)
    \/ \E i \in 1..Len(fbs) : OpsBudget /\ FbBind(i)
    \/ \E i \in 1..Len(fbs) : FbUnbind(i)
    \/ \E i \in 1..Len(fbs) : StrayUnbind(i)
    \/ \E i \in 1..Len(textures) : OpsBudget /\ TexBind(i)
    \/ \E i \in 1..Len(textures) : TexUnbind(i)
    \/ \E i \in 1..Len(textures) : OpsBudget /\ UpdateTexture(i, 1)
    \/ \E i \in 1..Len(fbs) : OpsBudget /\ ToImageData(i, 0)
    \/ \E i \in 1..Len(fbs) : OpsBudget /\ DrawBegin(i)
    \/ DrawReturn
    \/ DrawThrow
    \/ \E m \in OpsMaterials, g \in OpsGeometries : OpsBudget /\ DoPush(m, g)
    \/ DoFlush
    \/ \E iOk \in BOOLEAN : OpsBudget /\ ConstructMesh(OpsMeshGeometry, TRUE, iOk)
    \/ \E i \in 1..Len(meshes) : OpsBudget /\ DrawMesh(i)

\* Texture, BatchRenderer, Mesh and FrameBuffer operations in any order
SpecOps == Init /\ [][NextOps]_vars

(* ------------------- properties of the BatchRenderer ------------------ *)

Last(s) == s[Len(s)]

\* the renderer's current material tuple
CurrentTuple(b) ==
    [primitive |-> b.curPrimitive, tex |-> b.curTex, shader |-> b.curShader,
     uniform |-> b.curUniform, blend |-> b.curBlend, fixed |-> b.curFixed]

RunFits(r) == r.floats <= MaxVertices /\ r.indices <= MaxIndices

EndsRun(h, call) ==
    /\ h.run.k > 0
    /\ \/ call.op = "flush"
       \/ call.op = "push" /\ ~SameTuple(h.run.m, call.m)

ContinuesRun(h, call) ==
    h.run.k > 0 /\ call.op = "push" /\ SameTuple(h.run.m, call.m)

\* C1: a run of live pushes with one material tuple, within capacity, causes
\* no draw call while it lasts, and the push with a differing tuple or the
\* explicit flush that ends it issues exactly one draw call, whose count is
\* the number of indices of the run.
C1_RunDrawnOnce ==
    [][ /\ (ContinuesRun(hist, hist'.call) /\ RunFits(hist'.run))
            => ctx'.drawCalls = ctx.drawCalls
        /\ (EndsRun(hist, hist'.call) /\ RunFits(hist.run))
            => /\ Len(ctx'.drawCalls) = Len(ctx.drawCalls) + 1
               /\ ctx'.drawCalls[Len(ctx'.drawCalls)].count = hist.run.indices
      ]_vars

\* C2: at every draw call of flush(), all geometry in the queues was
\* submitted with one material tuple, the renderer's current one.
C2_OneMaterialPerDraw ==
    [][ Len(ctx'.drawCalls) > Len(ctx.drawCalls)
          => \A m \in hist.queued : SameTuple(m, CurrentTuple(br)) ]_vars

\* C3: the queues never hold more than maxVertices floats and maxIndices
\* indices.
C3_WithinCapacity ==
    /\ Len(br.vqueue) <= br.maxVertices
    /\ Len(br.iqueue) <= br.maxIndices

\* C4: a live push appends its vertices verbatim after the n floats queued at
\* that moment and stores each of its indices as the original plus n / stride,
\* leaving what was queued as it was; what was queued is the queue before the
\* call, or nothing when the call completed a flush, and a completed explicit
\* flush leaves nothing queued, so that the next offset is 0.
C4_IndexRebasing ==
    [][ /\ hist'.call.op = "push"
            => LET v == hist'.call.vertices
                   ix == hist'.call.indices
                   n == Len(br'.vqueue) - Len(v)
                   ni == Len(br'.iqueue) - Len(ix)
                   flushed == br'.numDraws > br.numDraws
               IN  /\ n >= 0
                   /\ ni >= 0
                   /\ SubSeq(br'.vqueue, n + 1, n + Len(v)) = v
                   /\ \A j \in 1..Len(ix) :
                         br'.iqueue[ni + j] * Stride = ix[j] * Stride + n
                   /\ SubSeq(br'.vqueue, 1, n) = (IF flushed THEN <<>> ELSE br.vqueue)
                   /\ SubSeq(br'.iqueue, 1, ni) = (IF flushed THEN <<>> ELSE br.iqueue)
        /\ (hist'.call.op = "flush" /\ br'.numDraws > br.numDraws)
            => br'.vqueue = <<>> /\ br'.iqueue = <<>>
      ]_vars

\* a push has stored an index behind geometry that was already queued,
\* rebased by a nonzero offset
C4_Witness ==
    /\ hist.call.op = "push"
    /\ hist.call.indices # <<>>
    /\ Len(br.vqueue) > Len(hist.call.vertices)
    /\ br.iqueue[Len(br.iqueue)] > hist.call.indices[Len(hist.call.indices)]

\* the vertices selected by the draw calls so far, in the order drawn
RECURSIVE GeometryOf(_)
GeometryOf(calls) ==
    IF calls = <<>> THEN <<>>
    ELSE GeometryOf(SubSeq(calls, 1, Len(calls) - 1)) \o calls[Len(calls)].geometry

\* C5: the geometry of the successive draw calls, concatenated, is the
\* submitted geometry in submission order, up to what has been drawn: nothing
\* is drawn early, twice, or skipped.
C5_SubmissionOrder ==
    LET drawn == GeometryOf(ctx.drawCalls)
    IN  /\ Len(drawn) <= Len(hist.submitted)
        /\ drawn = SubSeq(hist.submitted, 1, Len(drawn))

\* two draw calls have drawn two submissions
C5_Witness ==
    /\ Len(ctx.drawCalls) >= 2
    /\ ctx.drawCalls[1].geometry # <<>>
    /\ ctx.drawCalls[2].geometry # <<>>
    /\ ctx.drawCalls[1].geometry[1] # ctx.drawCalls[2].geometry[1]

\* the bytes the queues of the renderer need exceed a destination buffer
QueuesExceedBuffers(b, c) ==
    \/ Len(b.vqueue) * BytesPerFloat > c.bufSize[b.glVBuf]
    \/ Len(b.iqueue) * BytesPerIndex > c.bufSize[b.glIBuf]

\* the geometry of a push fits the capacity of the renderer by itself
FitsCapacity(call) ==
    /\ Len(call.vertices) <= MaxVertices
    /\ Len(call.indices) <= MaxIndices

\* C13: once a flush() has skipped its draw for want of buffer space, a later
\* push() of geometry that fits maxVertices and maxIndices followed by
\* flush() issues a draw call that contains that geometry.
C13_SkipDoesNotStall ==
    [][ ( /\ hist'.call.op = "flush"
          /\ hist.call.op = "push"
          /\ hist.call.reportedBefore > 0
          /\ FitsCapacity(hist.call)
          /\ hist.call.indices # <<>>
          /\ hist.call.m.primitive # 0 )
          => /\ Len(ctx'.drawCalls) = Len(ctx.drawCalls) + 1
             /\ \E j \in 1..Len(Last(ctx'.drawCalls).geometry) :
                    Last(ctx'.drawCalls).geometry[j] = hist.call.vertices[1] ]_vars

C18_BlendTable ==
    hist.call.op = "setBlend" => ctx.blendFunc = BlendFactors(hist.call.mode)

\* C21: with every push supplying whole vertices, the vertex queue holds whole
\* vertices in every state: its length is a multiple of the stride.
C21_QueueStrideAligned == Len(br.vqueue) % br.stride = 0

\* a second submission has joined the first in the queue: two whole vertices
C21_Witness ==
    /\ hist.call.op = "push"
    /\ hist.run.k = 2
    /\ Len(br.vqueue) = 2 * Stride
    /\ Len(hist.call.vertices) = Stride

\* a push has set a primitive and a shader: neither is null any more
MaterialSet(b) == b.curPrimitive # NullPrimitive /\ b.curShader # null

\* both queues hold something and a primitive and a shader are set
FlushHasWork(b) == Len(b.vqueue) > 0 /\ Len(b.iqueue) > 0 /\ MaterialSet(b)

\* C22: a flush() called with both queues non-empty, a primitive (any of the
\* enum values 0..6) and a shader set, and buffers large enough for the queues
\* issues exactly one indexed draw of the current primitive covering all
\* queued indices, empties both queues and adds one to numDraws; a flush()
\* that changes nothing was called with a queue empty or no primitive or
\* shader set.
C22_FlushDrawsOnce ==
    [][ hist'.call.op = "flush"
          => /\ (FlushHasWork(br) /\ ~QueuesExceedBuffers(br, ctx))
                    => /\ Len(ctx'.drawCalls) = Len(ctx.drawCalls) + 1
                       /\ Last(ctx'.drawCalls).count = Len(br.iqueue)
                       /\ Last(ctx'.drawCalls).mode = br.curPrimitive
                       /\ br'.vqueue = <<>>
                       /\ br'.iqueue = <<>>
                       /\ br'.numDraws = br.numDraws + 1
             /\ (br' = br /\ ctx' = ctx) => ~FlushHasWork(br) ]_vars

\* C25: with every submission supplying whole vertices and indices valid for
\* its own vertices, every value in the index queue refers to a vertex that is
\* in the vertex queue: 0 <= value < vqueue.length / stride.
C25_QueuedIndicesInRange ==
    \A j \in 1..Len(br.iqueue) :
        /\ 0 <= br.iqueue[j]
        /\ br.iqueue[j] < Len(br.vqueue) \div br.stride

\* a submission has joined a queue that held a vertex already, and its
\* indices have been moved behind that vertex
C25_Witness ==
    /\ hist.call.op = "push"
    /\ hist.run.k = 2
    /\ hist.call.indices # <<>>
    /\ Len(br.vqueue) > Len(hist.call.vertices)
    /\ Last(br.iqueue) > Last(hist.call.indices)

(* --------------------- properties of recording ------------------------ *)

\* the index counts of the commands that compaction by material tuple gives:
\* a push with the tuple of the push before it extends the last command
RECURSIVE CompactedCounts(_)
CompactedCounts(rec) ==
    IF rec = <<>> THEN <<>>
    ELSE LET n == Len(rec)
             prev == CompactedCounts(SubSeq(rec, 1, n - 1))
         IN  IF n > 1 /\ SameTuple(rec[n - 1].m, rec[n].m)
             THEN [prev EXCEPT ![Len(prev)] = @ + rec[n].count]
             ELSE Append(prev, rec[n].count)

\* C11: while a Picture that started with no commands is active, its commands
\* are the pushes compacted by material tuple: consecutive pushes with equal
\* tuples make one command whose count is the sum of their index counts, and
\* a push whose tuple differs in any component starts a new command.
C11_PictureCompaction ==
    br.picture.active
        => [i \in 1..Len(br.picture.commands) |-> br.picture.commands[i].count]
               = CompactedCounts(hist.recorded)

\* C12: a push() while a Picture is active changes nothing of the context (no
\* draw call, no GL call, no stack push or pop) and nothing of the renderer
\* but the Picture.
C12_RecordingTouchesNoGpu ==
    [][ (hist'.call.op = "push" /\ br.picture.active)
          => /\ ctx' = ctx
             /\ [br' EXCEPT !.picture = br.picture] = br
             /\ br'.picture.active ]_vars

\* a push has been recorded while geometry of an unfinished live batch is queued
C12_Witness ==
    /\ hist.call.op = "push"
    /\ br.picture.active
    /\ br.picture.commands # <<>>
    /\ br.picture.indices # <<>>
    /\ br.vqueue # <<>>
    /\ ~SameTuple(hist.call.m, CurrentTuple(br))

\* the sum of the counts of a sequence of commands
RECURSIVE SumCounts(_)
SumCounts(commands) ==
    IF commands = <<>> THEN 0
    ELSE SumCounts(SubSeq(commands, 1, Len(commands) - 1)) + Last(commands).count

\* C24: while a Picture that started empty is active, its commands partition
\* its index array in order: the first command starts at index 0, every later
\* command starts where the one before it ends, and the counts sum to the
\* length of the index array.
C24_CommandsPartitionIndices ==
    br.picture.active
        => LET commands == br.picture.commands
           IN  /\ commands # <<>> => commands[1].index = 0
               /\ \A i \in 2..Len(commands) :
                      commands[i].index = commands[i - 1].index + commands[i - 1].count
               /\ SumCounts(commands) = Len(br.picture.indices)

\* a second command has been recorded behind a first one that holds indices
C24_Witness ==
    /\ br.picture.active
    /\ hist.call.op = "push"
    /\ Len(br.picture.commands) = 2
    /\ br.picture.commands[2].index > 0
    /\ br.picture.commands[2].count > 0

(* ------------------ properties of texture storage --------------------- *)

\* the GL calls made on the storage of textures[i], in order
TexCallsOf(i) == SelectSeq(ctx.texCalls, LAMBDA x : x.tex = textures[i].glTex)

\* the sizes of the images textures[i] was updated with, in order
UpdatesOf(i) ==
    LET us == SelectSeq(hist.updates, LAMBDA u : u.tex = i)
    IN  [j \in 1..Len(us) |-> us[j].size]

Deferred(t) == t.width = 0 \/ t.height = 0

C16_AttachedMirrorsAllocated ==
    \A i \in 1..Len(fbs) : fbs[i].attached = textures[fbs[i].tex].allocated

\* C26: the width and height fields of every Texture whose storage is
\* allocated are the dimensions of that storage, also when the constructor
\* deferred the allocation and update() made it with the image's dimensions.
C26_FieldsMatchStorage ==
    \A i \in 1..Len(textures) :
        textures[i].allocated
            => /\ textures[i].glTex \in DOMAIN ctx.texStorage
               /\ ctx.texStorage[textures[i].glTex] = <<textures[i].width, textures[i].height>>

(* --------------------- properties of readback ------------------------- *)

\* row r (from 0) of an image of the given width, as its bytes
RowOf(data, r, width) == SubSeq(data, r * width * 4 + 1, (r + 1) * width * 4)

\* C19: toImageData() returns the rows read back in reverse order, for any
\* width and any height, odd or even: returned row r is the row
\* height - 1 - r that gl.readPixels delivered, byte for byte.
C19_RowsReversed ==
    hist.call.op = "toImageData"
        => LET c == hist.call
           IN  /\ Len(c.data) = c.width * c.height * 4
               /\ \A r \in 0..(c.height - 1) :
                      RowOf(c.data, r, c.width) = RowOf(c.read, c.height - 1 - r, c.width)

\* a framebuffer of odd height 3 and width 2 has been read back
C19_Witness ==
    /\ hist.call.op = "toImageData"
    /\ hist.call.height = 3
    /\ hist.call.width = 2
    /\ hist.call.data # hist.call.read

(* ------------------- properties of the constructors ------------------- *)

\* C17: a constructor of Texture, BatchRenderer, Mesh or FrameBuffer in which
\* a handle allocation returned null has thrown, and returned no object.
C17_AllocationFailureThrows ==
    (hist.call.op = "new" /\ hist.call.failed) => hist.call.thrown

(* ----------------- properties of the binding stacks ------------------- *)

\* C6: for every resource kind and at any depth, the pop() that matches a
\* push() leaves bound the resource that was bound just before that push().
C6_PopRestores ==
    [][ hist'.call.op = "stackPop"
          => LET k == hist'.call.kind
             IN  hist.boundBefore[k] # <<>>
                    => ctx'.bound[k] = Last(hist.boundBefore[k]) ]_vars

\* C7: after each unbind() of a properly nested bind()/unbind() sequence the
\* bound framebuffer, renderbuffer and viewport are those in effect just
\* before the matching bind(), at every depth.
C7_UnbindRestores ==
    [][ hist'.call.op \in {"unbind", "drawReturn"}
          => Target(ctx') = Last(hist.nest).before ]_vars

\* C8: when a draw(action) call ends, by return or by an exception of
\* action, the framebuffer, renderbuffer and viewport stacks hold what they
\* held when it began.
C8_DrawRestoresStacks ==
    [][ \A i \in 1..Len(callStack) :
          i > Len(callStack') => TargetStacks(ctx') = callStack[i].stacks ]_vars

\* the top of every non-empty stack is what is bound, and the viewport stack
\* is not empty
TopIsBound ==
    /\ \A k \in Kinds : ctx.stack[k] # <<>> => ctx.bound[k] = Last(ctx.stack[k])
    /\ ctx.stack["vp"] # <<>>

\* C20 as stated: after any sequence of Texture, BatchRenderer, Mesh and
\* FrameBuffer operations the resource bound for each kind whose stack is not
\* empty is the top of that stack, and the viewport stack is not empty.
C20_TopIsBound == TopIsBound

\* C20 as amended: the same, after any sequence of those operations in which
\* no FrameBuffer.unbind() was called without a bind() in effect.
C20_TopIsBoundWhenPaired == ~hist.stray => TopIsBound

\* a paired unbind() of a framebuffer of size 2 has returned to the seeded
\* viewport, which is the top of the viewport stack again
C20_Witness ==
    /\ ~hist.stray
    /\ hist.call.op = "unbind"
    /\ textures[fbs[hist.call.fb].tex].width = 2
    /\ ctx.stack["vp"] = <<DefaultViewport>>
    /\ ctx.bound["vp"] = DefaultViewport

\* the calls that bind what they need and unbind it before they return:
\* constructions, Texture.update(), flush(), Mesh.draw(), toImageData()
SelfContained(call) ==
    \/ call.op \in {"newTexture", "newFrameBuffer", "update", "flush", "meshDraw", "toImageData"}
    \/ call.op = "new" /\ call.class \in {"Texture", "BatchRenderer", "FrameBuffer"}

\* C23: a Texture, BatchRenderer or FrameBuffer construction, a
\* Texture.update(), a flush() on any of its paths, a Mesh.draw() and a
\* toImageData() each leave every resource-kind stack, depth and contents,
\* as it was before the call.
C23_SelfContainedKeepsStacks ==
    [][ SelfContained(hist'.call) => ctx'.stack = ctx.stack ]_vars

(* ---------------------- properties of teardown ------------------------ *)

\* the GPU handles the Texture and FrameBuffer objects have created
OwnedHandles ==
    {<<"tex", textures[i].glTex>> : i \in 1..Len(textures)}
    \cup {<<"fb", fbs[i].glFramebuffer>> : i \in 1..Len(fbs)}
    \cup {<<"rb", fbs[i].glRenderbuffer>> : i \in 1..Len(fbs)}

Deletions(h) == Cardinality({j \in 1..Len(ctx.deleteCalls) : ctx.deleteCalls[j] = h})

\* C9: when a single destroy() has returned, every handle a Texture or a
\* FrameBuffer created has been deleted exactly once, whether or not free()
\* was called before.
C9_DeletedExactlyOnce ==
    (hist.call.op = "destroy" /\ hist.destroys = 1)
        => \A h \in OwnedHandles : Deletions(h) = 1

StrictlyIncreasing(s) == \A i, j \in 1..Len(s) : i < j => s[i] < s[j]

====
